---- MODULE Spec2Model ----
(***************************************************************************)
(* Model of build_allen_mouse_atlas.py: the ontology loader, the hierarchy *)
(* linker (find_children), mesh discovery (get_mesh_names, get_mesh_ids),  *)
(* the node constructors, the type-tag merge (add_members_to_group) and    *)
(* the graph builder (build_atlas), run in the order of the script's entry *)
(* point.                                                                  *)
(*                                                                         *)
(* Text the code inspects character by character (CSV cells, the lines of  *)
(* the directory listing) is a tuple of one-character strings.  Node       *)
(* identifiers are strings, built by concatenation as str.format builds    *)
(* them.  A Python value that is an int or a str is a record               *)
(* [t, i, s]; an '@type' that is a str or a list is a record [kind, tags]. *)
(* Dictionary keys '@id' and '@type' are the record fields id and type.    *)
(***************************************************************************)
EXTENDS Integers, Sequences, FiniteSets, TLC

VARIABLES pc, rows, ontology, listing, mesh_ids, result_nodes, printed,
          rerun_nodes, s, s_history

vars == <<pc, rows, ontology, listing, mesh_ids, result_nodes, printed,
          rerun_nodes, s, s_history>>

(***************************************************************************)
(* Bounds of the model.                                                    *)
(***************************************************************************)
MaxRows == 2
MaxLines == 2
MaxTags == 2
MaxMerges == 2

(***************************************************************************)
(* Text and Python values.                                                 *)
(***************************************************************************)
(* A printable ASCII character is the one-character string; any other     *)
(* character is the string "U+XXXX" of its code point.                     *)
Digits == <<"0", "1", "2", "3", "4", "5", "6", "7", "8", "9">>

(* The decimal digits (category Nd) outside ASCII, one row per script, in  *)
(* the order of their values 0..9: int() and the pattern \d accept them.   *)
UnicodeDigits == <<
    <<"U+0660", "U+0661", "U+0662", "U+0663", "U+0664",
      "U+0665", "U+0666", "U+0667", "U+0668", "U+0669">>,
    <<"U+06F0", "U+06F1", "U+06F2", "U+06F3", "U+06F4",
      "U+06F5", "U+06F6", "U+06F7", "U+06F8", "U+06F9">>,
    <<"U+07C0", "U+07C1", "U+07C2", "U+07C3", "U+07C4",
      "U+07C5", "U+07C6", "U+07C7", "U+07C8", "U+07C9">>,
    <<"U+0966", "U+0967", "U+0968", "U+0969", "U+096A",
      "U+096B", "U+096C", "U+096D", "U+096E", "U+096F">>,
    <<"U+09E6", "U+09E7", "U+09E8", "U+09E9", "U+09EA",
      "U+09EB", "U+09EC", "U+09ED", "U+09EE", "U+09EF">>,
    <<"U+0A66", "U+0A67", "U+0A68", "U+0A69", "U+0A6A",
      "U+0A6B", "U+0A6C", "U+0A6D", "U+0A6E", "U+0A6F">>,
    <<"U+0AE6", "U+0AE7", "U+0AE8", "U+0AE9", "U+0AEA",
      "U+0AEB", "U+0AEC", "U+0AED", "U+0AEE", "U+0AEF">>,
    <<"U+0B66", "U+0B67", "U+0B68", "U+0B69", "U+0B6A",
      "U+0B6B", "U+0B6C", "U+0B6D", "U+0B6E", "U+0B6F">>,
    <<"U+0BE6", "U+0BE7", "U+0BE8", "U+0BE9", "U+0BEA",
      "U+0BEB", "U+0BEC", "U+0BED", "U+0BEE", "U+0BEF">>,
    <<"U+0C66", "U+0C67", "U+0C68", "U+0C69", "U+0C6A",
      "U+0C6B", "U+0C6C", "U+0C6D", "U+0C6E", "U+0C6F">>,
    <<"U+0CE6", "U+0CE7", "U+0CE8", "U+0CE9", "U+0CEA",
      "U+0CEB", "U+0CEC", "U+0CED", "U+0CEE", "U+0CEF">>,
    <<"U+0D66", "U+0D67", "U+0D68", "U+0D69", "U+0D6A",
      "U+0D6B", "U+0D6C", "U+0D6D", "U+0D6E", "U+0D6F">>,
    <<"U+0DE6", "U+0DE7", "U+0DE8", "U+0DE9", "U+0DEA",
      "U+0DEB", "U+0DEC", "U+0DED", "U+0DEE", "U+0DEF">>,
    <<"U+0E50", "U+0E51", "U+0E52", "U+0E53", "U+0E54",
      "U+0E55", "U+0E56", "U+0E57", "U+0E58", "U+0E59">>,
    <<"U+0ED0", "U+0ED1", "U+0ED2", "U+0ED3", "U+0ED4",
      "U+0ED5", "U+0ED6", "U+0ED7", "U+0ED8", "U+0ED9">>,
    <<"U+0F20", "U+0F21", "U+0F22", "U+0F23", "U+0F24",
      "U+0F25", "U+0F26", "U+0F27", "U+0F28", "U+0F29">>,
    <<"U+1040", "U+1041", "U+1042", "U+1043", "U+1044",
      "U+1045", "U+1046", "U+1047", "U+1048", "U+1049">>,
    <<"U+1090", "U+1091", "U+1092", "U+1093", "U+1094",
      "U+1095", "U+1096", "U+1097", "U+1098", "U+1099">>,
    <<"U+17E0", "U+17E1", "U+17E2", "U+17E3", "U+17E4",
      "U+17E5", "U+17E6", "U+17E7", "U+17E8", "U+17E9">>,
    <<"U+1810", "U+1811", "U+1812", "U+1813", "U+1814",
      "U+1815", "U+1816", "U+1817", "U+1818", "U+1819">>,
    <<"U+1946", "U+1947", "U+1948", "U+1949", "U+194A",
      "U+194B", "U+194C", "U+194D", "U+194E", "U+194F">>,
    <<"U+19D0", "U+19D1", "U+19D2", "U+19D3", "U+19D4",
      "U+19D5", "U+19D6", "U+19D7", "U+19D8", "U+19D9">>,
    <<"U+1A80", "U+1A81", "U+1A82", "U+1A83", "U+1A84",
      "U+1A85", "U+1A86", "U+1A87", "U+1A88", "U+1A89">>,
    <<"U+1A90", "U+1A91", "U+1A92", "U+1A93", "U+1A94",
      "U+1A95", "U+1A96", "U+1A97", "U+1A98", "U+1A99">>,
    <<"U+1B50", "U+1B51", "U+1B52", "U+1B53", "U+1B54",
      "U+1B55", "U+1B56", "U+1B57", "U+1B58", "U+1B59">>,
    <<"U+1BB0", "U+1BB1", "U+1BB2", "U+1BB3", "U+1BB4",
      "U+1BB5", "U+1BB6", "U+1BB7", "U+1BB8", "U+1BB9">>,
    <<"U+1C40", "U+1C41", "U+1C42", "U+1C43", "U+1C44",
      "U+1C45", "U+1C46", "U+1C47", "U+1C48", "U+1C49">>,
    <<"U+1C50", "U+1C51", "U+1C52", "U+1C53", "U+1C54",
      "U+1C55", "U+1C56", "U+1C57", "U+1C58", "U+1C59">>,
    <<"U+A620", "U+A621", "U+A622", "U+A623", "U+A624",
      "U+A625", "U+A626", "U+A627", "U+A628", "U+A629">>,
    <<"U+A8D0", "U+A8D1", "U+A8D2", "U+A8D3", "U+A8D4",
      "U+A8D5", "U+A8D6", "U+A8D7", "U+A8D8", "U+A8D9">>,
    <<"U+A900", "U+A901", "U+A902", "U+A903", "U+A904",
      "U+A905", "U+A906", "U+A907", "U+A908", "U+A909">>,
    <<"U+A9D0", "U+A9D1", "U+A9D2", "U+A9D3", "U+A9D4",
      "U+A9D5", "U+A9D6", "U+A9D7", "U+A9D8", "U+A9D9">>,
    <<"U+A9F0", "U+A9F1", "U+A9F2", "U+A9F3", "U+A9F4",
      "U+A9F5", "U+A9F6", "U+A9F7", "U+A9F8", "U+A9F9">>,
    <<"U+AA50", "U+AA51", "U+AA52", "U+AA53", "U+AA54",
      "U+AA55", "U+AA56", "U+AA57", "U+AA58", "U+AA59">>,
    <<"U+ABF0", "U+ABF1", "U+ABF2", "U+ABF3", "U+ABF4",
      "U+ABF5", "U+ABF6", "U+ABF7", "U+ABF8", "U+ABF9">>,
    <<"U+FF10", "U+FF11", "U+FF12", "U+FF13", "U+FF14",
      "U+FF15", "U+FF16", "U+FF17", "U+FF18", "U+FF19">>,
    <<"U+104A0", "U+104A1", "U+104A2", "U+104A3", "U+104A4",
      "U+104A5", "U+104A6", "U+104A7", "U+104A8", "U+104A9">>,
    <<"U+10D30", "U+10D31", "U+10D32", "U+10D33", "U+10D34",
      "U+10D35", "U+10D36", "U+10D37", "U+10D38", "U+10D39">>,
    <<"U+11066", "U+11067", "U+11068", "U+11069", "U+1106A",
      "U+1106B", "U+1106C", "U+1106D", "U+1106E", "U+1106F">>,
    <<"U+110F0", "U+110F1", "U+110F2", "U+110F3", "U+110F4",
      "U+110F5", "U+110F6", "U+110F7", "U+110F8", "U+110F9">>,
    <<"U+11136", "U+11137", "U+11138", "U+11139", "U+1113A",
      "U+1113B", "U+1113C", "U+1113D", "U+1113E", "U+1113F">>,
    <<"U+111D0", "U+111D1", "U+111D2", "U+111D3", "U+111D4",
      "U+111D5", "U+111D6", "U+111D7", "U+111D8", "U+111D9">>,
    <<"U+112F0", "U+112F1", "U+112F2", "U+112F3", "U+112F4",
      "U+112F5", "U+112F6", "U+112F7", "U+112F8", "U+112F9">>,
    <<"U+11450", "U+11451", "U+11452", "U+11453", "U+11454",
      "U+11455", "U+11456", "U+11457", "U+11458", "U+11459">>,
    <<"U+114D0", "U+114D1", "U+114D2", "U+114D3", "U+114D4",
      "U+114D5", "U+114D6", "U+114D7", "U+114D8", "U+114D9">>,
    <<"U+11650", "U+11651", "U+11652", "U+11653", "U+11654",
      "U+11655", "U+11656", "U+11657", "U+11658", "U+11659">>,
    <<"U+116C0", "U+116C1", "U+116C2", "U+116C3", "U+116C4",
      "U+116C5", "U+116C6", "U+116C7", "U+116C8", "U+116C9">>,
    <<"U+11730", "U+11731", "U+11732", "U+11733", "U+11734",
      "U+11735", "U+11736", "U+11737", "U+11738", "U+11739">>,
    <<"U+118E0", "U+118E1", "U+118E2", "U+118E3", "U+118E4",
      "U+118E5", "U+118E6", "U+118E7", "U+118E8", "U+118E9">>,
    <<"U+11950", "U+11951", "U+11952", "U+11953", "U+11954",
      "U+11955", "U+11956", "U+11957", "U+11958", "U+11959">>,
    <<"U+11C50", "U+11C51", "U+11C52", "U+11C53", "U+11C54",
      "U+11C55", "U+11C56", "U+11C57", "U+11C58", "U+11C59">>,
    <<"U+11D50", "U+11D51", "U+11D52", "U+11D53", "U+11D54",
      "U+11D55", "U+11D56", "U+11D57", "U+11D58", "U+11D59">>,
    <<"U+11DA0", "U+11DA1", "U+11DA2", "U+11DA3", "U+11DA4",
      "U+11DA5", "U+11DA6", "U+11DA7", "U+11DA8", "U+11DA9">>,
    <<"U+16A60", "U+16A61", "U+16A62", "U+16A63", "U+16A64",
      "U+16A65", "U+16A66", "U+16A67", "U+16A68", "U+16A69">>,
    <<"U+16AC0", "U+16AC1", "U+16AC2", "U+16AC3", "U+16AC4",
      "U+16AC5", "U+16AC6", "U+16AC7", "U+16AC8", "U+16AC9">>,
    <<"U+16B50", "U+16B51", "U+16B52", "U+16B53", "U+16B54",
      "U+16B55", "U+16B56", "U+16B57", "U+16B58", "U+16B59">>,
    <<"U+1D7CE", "U+1D7CF", "U+1D7D0", "U+1D7D1", "U+1D7D2",
      "U+1D7D3", "U+1D7D4", "U+1D7D5", "U+1D7D6", "U+1D7D7">>,
    <<"U+1D7D8", "U+1D7D9", "U+1D7DA", "U+1D7DB", "U+1D7DC",
      "U+1D7DD", "U+1D7DE", "U+1D7DF", "U+1D7E0", "U+1D7E1">>,
    <<"U+1D7E2", "U+1D7E3", "U+1D7E4", "U+1D7E5", "U+1D7E6",
      "U+1D7E7", "U+1D7E8", "U+1D7E9", "U+1D7EA", "U+1D7EB">>,
    <<"U+1D7EC", "U+1D7ED", "U+1D7EE", "U+1D7EF", "U+1D7F0",
      "U+1D7F1", "U+1D7F2", "U+1D7F3", "U+1D7F4", "U+1D7F5">>,
    <<"U+1D7F6", "U+1D7F7", "U+1D7F8", "U+1D7F9", "U+1D7FA",
      "U+1D7FB", "U+1D7FC", "U+1D7FD", "U+1D7FE", "U+1D7FF">>,
    <<"U+1E140", "U+1E141", "U+1E142", "U+1E143", "U+1E144",
      "U+1E145", "U+1E146", "U+1E147", "U+1E148", "U+1E149">>,
    <<"U+1E2F0", "U+1E2F1", "U+1E2F2", "U+1E2F3", "U+1E2F4",
      "U+1E2F5", "U+1E2F6", "U+1E2F7", "U+1E2F8", "U+1E2F9">>,
    <<"U+1E950", "U+1E951", "U+1E952", "U+1E953", "U+1E954",
      "U+1E955", "U+1E956", "U+1E957", "U+1E958", "U+1E959">>,
    <<"U+1FBF0", "U+1FBF1", "U+1FBF2", "U+1FBF3", "U+1FBF4",
      "U+1FBF5", "U+1FBF6", "U+1FBF7", "U+1FBF8", "U+1FBF9">>
    >>

DigitRows == <<Digits>> \o UnicodeDigits

DigitChars == UNION {{DigitRows[b][d] : d \in 1..10} : b \in 1..Len(DigitRows)}

IsDigit(c) == c \in DigitChars

DigitVal(c) ==
    (CHOOSE d \in 1..10 : \E b \in 1..Len(DigitRows) : DigitRows[b][d] = c) - 1

(* The characters int() strips from both ends of its argument. *)
Whitespace ==
    {" ", "U+0009", "U+000A", "U+000B", "U+000C", "U+000D", "U+0085",
     "U+00A0", "U+1680", "U+2000", "U+2001", "U+2002", "U+2003", "U+2004",
     "U+2005", "U+2006", "U+2007", "U+2008", "U+2009", "U+200A", "U+2028",
     "U+2029", "U+202F", "U+205F", "U+3000"}

IsSpace(c) == c \in Whitespace

Strip(x) ==
    LET keep == {k \in 1..Len(x) : ~IsSpace(x[k])}
    IN IF keep = {} THEN <<>>
       ELSE SubSeq(x, CHOOSE a \in keep : \A k \in keep : a <= k,
                      CHOOSE b \in keep : \A k \in keep : k <= b)

HasSign(x) == Len(x) > 0 /\ x[1] \in {"+", "-"}

Unsigned(x) == IF HasSign(x) THEN Tail(x) ELSE x

(* The most digits int() converts (sys.get_int_max_str_digits() of the     *)
(* interpreter, not changed by the script); a longer literal raises        *)
(* ValueError.                                                             *)
IntMaxStrDigits == 4300

(* Digits, with single underscores allowed between two digits; leading     *)
(* zeros count towards the limit, underscores do not.                      *)
IsDigits(x) ==
    /\ Len(x) > 0
    /\ Cardinality({k \in 1..Len(x) : IsDigit(x[k])}) <= IntMaxStrDigits
    /\ \A k \in 1..Len(x) :
         \/ IsDigit(x[k])
         \/ /\ x[k] = "_"
            /\ 1 < k /\ k < Len(x)
            /\ IsDigit(x[k - 1]) /\ IsDigit(x[k + 1])

RECURSIVE DigitsValue(_)
DigitsValue(x) ==
    IF Len(x) = 0 THEN 0
    ELSE IF x[Len(x)] = "_" THEN DigitsValue(SubSeq(x, 1, Len(x) - 1))
    ELSE 10 * DigitsValue(SubSeq(x, 1, Len(x) - 1)) + DigitVal(x[Len(x)])

(* int(x) of a str: ok is FALSE where the code raises ValueError. *)
int(x) ==
    LET body == Unsigned(Strip(x))
    IN IF ~IsDigits(body) THEN [ok |-> FALSE, v |-> 0]
       ELSE [ok |-> TRUE,
             v |-> IF Strip(x)[1] = "-" THEN 0 - DigitsValue(body)
                   ELSE DigitsValue(body)]

RECURSIVE format(_)
format(n) == IF n < 0 THEN "-" \o format(0 - n)
             ELSE IF n < 10 THEN Digits[n + 1]
             ELSE format(n \div 10) \o Digits[(n % 10) + 1]

RECURSIVE Join(_)
Join(x) == IF Len(x) = 0 THEN "" ELSE x[1] \o Join(Tail(x))

PyInt(n) == [t |-> "int", i |-> n, s |-> <<>>]

PyStr(x) == [t |-> "str", i |-> 0, s |-> x]

EmptyStr == PyStr(<<>>)

possibly_int(x) == IF int(x).ok THEN PyInt(int(x).v) ELSE PyStr(x)

FormatVal(v) == IF v.t = "int" THEN format(v.i) ELSE Join(v.s)

RECURSIVE Perms(_)
Perms(S) == IF S = {} THEN {<<>>}
            ELSE UNION {{<<x>> \o p : p \in Perms(S \ {x})} : x \in S}

Range(f) == {f[k] : k \in DOMAIN f}

SeqsUpTo(S, n) == UNION {[1..k -> S] : k \in 0..n}

(***************************************************************************)
(* Dictionaries keep insertion order: a dict is a sequence of              *)
(* [key, value] pairs with distinct keys.                                  *)
(***************************************************************************)
HasKey(d, k) == \E j \in 1..Len(d) : d[j].key = k

IndexOf(d, k) == CHOOSE j \in 1..Len(d) : d[j].key = k

Get(d, k) == d[IndexOf(d, k)].value

Put(d, k, v) == IF HasKey(d, k) THEN [d EXCEPT ![IndexOf(d, k)].value = v]
                ELSE Append(d, [key |-> k, value |-> v])

Values(d) == [j \in 1..Len(d) |-> d[j].value]

(***************************************************************************)
(* get_allen_mouse_ontology: one record per CSV row, every cell through    *)
(* possibly_int, indexed by int(id); int(id) raises ValueError on an id    *)
(* cell that is no integer literal, and no mapping is returned.            *)
(***************************************************************************)
Cell997 == <<"9", "9", "7">>
Cell7 == <<"7">>
Cell8 == <<"+", "8">>
CellSpace8 == <<" ", "8">>

IdCells == {Cell997, Cell7, Cell8, <<>>}

ParentCells == {<<>>, Cell997, CellSpace8}

ColorOf(idc) == IF idc = Cell997 THEN <<"F", "F", "F", "F", "F", "F">>
                ELSE IF idc = Cell7 THEN <<"0", "0", "7", "0", "0", "7">>
                ELSE <<"A", "0", "A", "0", "A", "0">>

NameOf(idc) == IF idc = Cell997 THEN <<"r", "o", "o", "t">>
               ELSE IF idc = Cell7 THEN <<"n", "7">>
               ELSE <<"8", "8">>

CsvRow(idc, pc_) == [id |-> idc, parent_structure_id |-> pc_,
                     color_hex_triplet |-> ColorOf(idc),
                     safe_name |-> NameOf(idc), acronym |-> NameOf(idc)]

CsvRows == {CsvRow(a, b) : a \in IdCells, b \in ParentCells}

CsvFiles == SeqsUpTo(CsvRows, MaxRows)

Record(r) == [id |-> possibly_int(r.id),
              parent_structure_id |-> possibly_int(r.parent_structure_id),
              color_hex_triplet |-> possibly_int(r.color_hex_triplet),
              safe_name |-> possibly_int(r.safe_name),
              acronym |-> possibly_int(r.acronym),
              has_children |-> FALSE,
              child_structure_ids |-> <<>>]

RECURSIVE Results(_)
Results(rs) ==
    IF Len(rs) = 0 THEN <<>>
    ELSE LET r == rs[Len(rs)]
         IN Put(Results(SubSeq(rs, 1, Len(rs) - 1)), int(r.id).v, Record(r))

get_allen_mouse_ontology(rs) ==
    IF \E k \in 1..Len(rs) : ~int(rs[k].id).ok
    THEN [ok |-> FALSE, ontology |-> <<>>]
    ELSE [ok |-> TRUE, ontology |-> Results(rs)]

(***************************************************************************)
(* find_children: for every entry in dictionary order, append its id to    *)
(* the child list of its parent.  ontology[parent_id] raises KeyError when *)
(* parent_id is not a key; has_children says whether the entry has the     *)
(* key 'child_structure_ids'.                                              *)
(***************************************************************************)
IsKey(o, v) == v.t = "int" /\ HasKey(o, v.i)

(* Faulty variant: the child list is created anew on every append. *)
AppendChildReset(parent, id) ==
    [parent EXCEPT !.has_children = TRUE, !.child_structure_ids = <<id>>]

AppendChild(parent, id) ==
    [parent EXCEPT !.has_children = TRUE,
                   !.child_structure_ids = Append(parent.child_structure_ids, id)]

(* Faulty variant: an unresolved parent is skipped like an empty one. *)
RECURSIVE FindChildrenFromSkip(_, _)
FindChildrenFromSkip(o, j) ==
    IF j > Len(o) THEN [ok |-> TRUE, ontology |-> o]
    ELSE LET entry == o[j].value
             parent_id == entry.parent_structure_id
         IN IF parent_id = EmptyStr \/ ~IsKey(o, parent_id)
            THEN FindChildrenFromSkip(o, j + 1)
            ELSE FindChildrenFromSkip(
                   Put(o, parent_id.i, AppendChild(Get(o, parent_id.i), entry.id)),
                   j + 1)

RECURSIVE FindChildrenFrom(_, _)
FindChildrenFrom(o, j) ==
    IF j > Len(o) THEN [ok |-> TRUE, ontology |-> o]
    ELSE LET entry == o[j].value
             parent_id == entry.parent_structure_id
         IN IF parent_id = EmptyStr THEN FindChildrenFrom(o, j + 1)
            ELSE IF ~IsKey(o, parent_id) THEN [ok |-> FALSE, ontology |-> o]
            ELSE FindChildrenFrom(
                   Put(o, parent_id.i, AppendChild(Get(o, parent_id.i), entry.id)),
                   j + 1)

find_children(o) == FindChildrenFrom(o, 1)

(***************************************************************************)
(* Mesh discovery.  get_mesh_names keeps, for each line that contains      *)
(* '.obj', the first match of the pattern (\d+\.obj); list(meshes) yields  *)
(* the set's elements in an order the code does not control.  get_mesh_ids *)
(* converts each name to an integer.                                       *)
(***************************************************************************)
DotObj == <<".", "o", "b", "j">>

Contains(line, sub) ==
    \E p \in 1..(Len(line) - Len(sub) + 1) : SubSeq(line, p, p + Len(sub) - 1) = sub

MatchLens(line, p) ==
    {k \in 1..(Len(line) - p + 1) :
        /\ \A q \in p..(p + k - 1) : IsDigit(line[q])
        /\ p + k + 3 <= Len(line)
        /\ SubSeq(line, p + k, p + k + 3) = DotObj}

Max(S) == CHOOSE x \in S : \A y \in S : y <= x

Min(S) == CHOOSE x \in S : \A y \in S : x <= y

MatchStarts(line) == {p \in 1..Len(line) : MatchLens(line, p) # {}}

re_search(line) ==
    IF MatchStarts(line) = {} THEN <<>>
    ELSE LET p == Min(MatchStarts(line))
             k == Max(MatchLens(line, p))
         IN SubSeq(line, p, p + k + 3)

LineMeshes(line) ==
    IF ~Contains(line, DotObj) THEN {}
    ELSE IF re_search(line) = <<>> THEN {}
    ELSE {re_search(line)}

meshes(lines) == UNION {LineMeshes(lines[k]) : k \in 1..Len(lines)}

get_mesh_names(lines) == Perms(meshes(lines))

RECURSIVE replace(_, _)
replace(x, old) ==
    IF Len(x) = 0 THEN <<>>
    ELSE IF Len(x) >= Len(old) /\ SubSeq(x, 1, Len(old)) = old
         THEN replace(SubSeq(x, Len(old) + 1, Len(x)), old)
         ELSE <<x[1]>> \o replace(Tail(x), old)

(* ok is FALSE where int() raises ValueError and no list is returned. *)
get_mesh_ids(lines) ==
    {IF \E k \in 1..Len(names) : ~int(replace(names[k], DotObj)).ok
     THEN [ok |-> FALSE, mesh_ids |-> <<>>]
     ELSE [ok |-> TRUE,
           mesh_ids |-> [k \in 1..Len(names) |-> int(replace(names[k], DotObj)).v]] :
        names \in get_mesh_names(lines)}

Line997 == <<"9", "9", "7", ".", "o", "b", "j">>
LineFullwidth7 == <<"U+FF17", ".", "o", "b", "j">>
Line0997 == <<"0", "9", "9", "7", ".", "o", "b", "j">>
Line8and7 == <<"8", ".", "o", "b", "j", " ", "7", ".", "o", "b", "j">>
LineHref == <<"h", "=", "9", "9", "7", ".", "o", "b", "j", ">", "9", "9", "7", ".", "o", "b", "j">>
LineNoDigits == <<"x", ".", "o", "b", "j">>
LineOther == <<"R", "E", "A", "D", "M", "E", "1">>

ListingLines == {Line997, LineFullwidth7, Line0997, Line8and7, LineHref, LineNoDigits, LineOther}

Listings == SeqsUpTo(ListingLines, MaxLines)

(***************************************************************************)
(* Module constants.                                                       *)
(***************************************************************************)
FormatVersion == "0.9"

AllenDownloadBaseURL ==
    "http://download.alleninstitute.org/informatics-archive/current-release/mouse_ccf/"

MouseCCFAverageTemplateBaseURL == AllenDownloadBaseURL \o "average_template/"

MouseCCFAraNisslURL == AllenDownloadBaseURL \o "ara_nissl/"

MouseCCFDownloadBaseURL == AllenDownloadBaseURL \o "annotation/ccf_2017/"

MouseCCFMeshBaseURL == MouseCCFDownloadBaseURL \o "structure_meshes/"

MouseCCFMaskBaseURL == MouseCCFDownloadBaseURL \o "structure_masks/"

resolutions == <<10, 25, 50, 100>>

RootId == 997

(***************************************************************************)
(* Node constructors.  An optional argument is <<>> when it is not given   *)
(* (None) and a one-element tuple when it is; a node is a record that has  *)
(* a field only when the dictionary has the key.  'if annotation:' is      *)
(* false for None and for an empty dictionary.                             *)
(***************************************************************************)
Truthy(annotation) == Len(annotation) > 0 /\ DOMAIN annotation[1] # {}

TStr(x) == [kind |-> "str", tags |-> <<x>>]

TList(l) == [kind |-> "list", tags |-> l]

Ids(nodes) == [k \in 1..Len(nodes) |-> nodes[k].id]

Header(id_, roots, backgroundImages, annotation) ==
    [id |-> id_, type |-> TStr("Header"), root |-> Ids(roots),
     formatVersion |-> FormatVersion]
    @@ (IF Len(backgroundImages) > 0
        THEN [backgroundImage |-> Ids(backgroundImages)] ELSE <<>>)
    @@ (IF Truthy(annotation) THEN [annotation |-> annotation[1]] ELSE <<>>)

BaseURL(id_, url) == [id |-> id_, type |-> TStr("BaseURL"), url |-> url]

(* Faulty variant: baseURL holds the URL text instead of the node's @id. *)
DataSourceByUrl(id_, baseURL, mimeType, source, annotation, extra_types) ==
    [id |-> id_,
     type |-> IF Len(extra_types) = 0 THEN TStr("DataSource")
              ELSE TList(<<"DataSource">> \o extra_types),
     baseURL |-> baseURL.url, mimeType |-> mimeType, source |-> source]
    @@ (IF Truthy(annotation) THEN [annotation |-> annotation[1]] ELSE <<>>)

DataSource(id_, baseURL, mimeType, source, annotation, extra_types) ==
    [id |-> id_,
     type |-> IF Len(extra_types) = 0 THEN TStr("DataSource")
              ELSE TList(<<"DataSource">> \o extra_types),
     baseURL |-> baseURL.id, mimeType |-> mimeType, source |-> source]
    @@ (IF Truthy(annotation) THEN [annotation |-> annotation[1]] ELSE <<>>)

(* Faulty variant: the loop over label_ds appends the mesh source again. *)
StructureMeshOnly(id_, structure_id, color, mesh_ds, label_ds, is_group, annotation) ==
    [id |-> id_,
     type |-> IF is_group THEN TList(<<"Structure", "Group">>) ELSE TStr("Structure"),
     style |-> [color |-> color],
     shape |-> [type |-> TStr("Shape"),
                dataSource |-> <<mesh_ds.id>> \o [k \in 1..Len(label_ds) |-> mesh_ds.id]]]
    @@ (IF Truthy(annotation) THEN [annotation |-> annotation[1]] ELSE <<>>)

Structure(id_, structure_id, color, mesh_ds, label_ds, is_group, annotation) ==
    [id |-> id_,
     type |-> IF is_group THEN TList(<<"Structure", "Group">>) ELSE TStr("Structure"),
     style |-> [color |-> color],
     shape |-> [type |-> TStr("Shape"),
                dataSource |-> <<mesh_ds.id>> \o Ids(label_ds)]]
    @@ (IF Truthy(annotation) THEN [annotation |-> annotation[1]] ELSE <<>>)

(***************************************************************************)
(* build_atlas.  The three dictionaries keyed by mesh id are filled in the *)
(* order of mesh_ids; a repeated id overwrites its own entry.              *)
(***************************************************************************)
MeshDataSource(mesh_base, mid) ==
    DataSource("#mesh_ds_" \o format(mid), mesh_base, "text/plain",
               format(mid) \o ".obj", <<>>,
               <<"GeometryDataSource", "TriangleMeshDataSource">>)

(* Faulty variant: the mesh sources are collected in a list, not a dict. *)
MeshDataSourcesList(mesh_base, ids) ==
    [k \in 1..Len(ids) |-> [key |-> ids[k], value |-> MeshDataSource(mesh_base, ids[k])]]

RECURSIVE MeshDataSources(_, _)
MeshDataSources(mesh_base, ids) ==
    IF Len(ids) = 0 THEN <<>>
    ELSE Put(MeshDataSources(mesh_base, SubSeq(ids, 1, Len(ids) - 1)),
             ids[Len(ids)], MeshDataSource(mesh_base, ids[Len(ids)]))

MaskDataSource(download_base, r, mid) ==
    DataSource("#mask_ds_" \o format(r) \o "_" \o format(mid), download_base,
               "application/octet-stream",
               "structure_masks_" \o format(r) \o "/structure_" \o format(mid) \o ".nrrd",
               <<[spatialResolutionMicrons |-> r]>>,
               <<"ImageDataSource", "VoxelMaskDataSource">>)

MaskDataSourcesOf(download_base, mid) ==
    [k \in 1..Len(resolutions) |->
        [key |-> resolutions[k],
         value |-> MaskDataSource(download_base, resolutions[k], mid)]]

(* Faulty variant: the mask sources are collected in a list, not a dict. *)
LabelDataSourcesList(download_base, ids) ==
    [k \in 1..Len(ids) |->
        [key |-> ids[k], value |-> MaskDataSourcesOf(download_base, ids[k])]]

RECURSIVE LabelDataSources(_, _)
LabelDataSources(download_base, ids) ==
    IF Len(ids) = 0 THEN <<>>
    ELSE Put(LabelDataSources(download_base, SubSeq(ids, 1, Len(ids) - 1)),
             ids[Len(ids)], MaskDataSourcesOf(download_base, ids[Len(ids)]))

RECURSIVE Flatten(_)
Flatten(ds) == IF Len(ds) = 0 THEN <<>> ELSE Values(ds[1]) \o Flatten(Tail(ds))

StructureOf(o, mesh_data_sources, label_data_sources, mid) ==
    LET ontology_entry == Get(o, mid)
        color == "#" \o FormatVal(ontology_entry.color_hex_triplet)
    IN Structure("#structure_" \o format(mid), mid, color,
                 Get(mesh_data_sources, mid),
                 Values(Get(label_data_sources, mid)), FALSE,
                 <<[name |-> ontology_entry.safe_name,
                    acronym |-> ontology_entry.acronym,
                    allenAtlasId |-> ontology_entry.id]>>)

RECURSIVE Structures(_, _, _, _)
Structures(o, mesh_data_sources, label_data_sources, ids) ==
    IF Len(ids) = 0 THEN <<>>
    ELSE Put(Structures(o, mesh_data_sources, label_data_sources,
                        SubSeq(ids, 1, Len(ids) - 1)),
             ids[Len(ids)],
             StructureOf(o, mesh_data_sources, label_data_sources, ids[Len(ids)]))

AverageTemplate(average_template_base, r) ==
    DataSource("#average_template_ds_" \o format(r), average_template_base,
               "application/octet-stream", "average_template_" \o format(r) \o ".nrrd",
               <<[spatialResolutionMicrons |-> r]>>,
               <<"ImageDataSource", "AverageTemplateDataSource">>)

AraNissl(ara_nissl_base, r) ==
    DataSource("#ara_nissl_ds_" \o format(r), ara_nissl_base,
               "application/octet-stream", "ara_nissl_" \o format(r) \o ".nrrd",
               <<[spatialResolutionMicrons |-> r]>>,
               <<"ImageDataSource", "AraNisslDataSource">>)

HeaderAnnotation ==
    [name |-> "Allen Mouse CCF Atlas",
     about |-> <<"http://help.brain-map.org/display/mousebrain/",
                 "http://help.brain-map.org/display/mousebrain/API",
                 "http://portal.brain-map.org/">>]

(* Faulty variant: the header is appended instead of inserted at 0. *)
AppendHeader(header, nodes) == nodes \o <<header>>

Insert0(header, nodes) == <<header>> \o nodes

(* Faulty variant: the root is the first structure built. *)
HeaderRootFirst(structures) == <<Values(structures)[1]>>

HeaderRoot(structures) == <<Get(structures, RootId)>>

build_atlas(o, ids) ==
    LET mesh_base == BaseURL("#mesh_base_url", MouseCCFMeshBaseURL)
        mask_base == BaseURL("#mask_base_url", MouseCCFMaskBaseURL)
        download_base == BaseURL("#mesh_download_url", MouseCCFDownloadBaseURL)
        average_template_base ==
            BaseURL("#average_template_base_url", MouseCCFAverageTemplateBaseURL)
        ara_nissl_base == BaseURL("#ara_nissl_base_url", MouseCCFAraNisslURL)
        mesh_data_sources == MeshDataSources(mesh_base, ids)
        label_data_sources == LabelDataSources(download_base, ids)
        structures == Structures(o, mesh_data_sources, label_data_sources, ids)
        average_templates ==
            [k \in 1..Len(resolutions) |->
                AverageTemplate(average_template_base, resolutions[k])]
        ara_nissl ==
            [k \in 1..Len(resolutions) |-> AraNissl(ara_nissl_base, resolutions[k])]
        header == Header("#__header__", HeaderRoot(structures), average_templates,
                         <<HeaderAnnotation>>)
    IN IF \E k \in 1..Len(ids) : ~HasKey(o, ids[k])
       THEN [ok |-> FALSE, nodes |-> <<>>]
       ELSE IF ~HasKey(structures, RootId)
       THEN [ok |-> FALSE, nodes |-> <<>>]
       ELSE [ok |-> TRUE,
             nodes |-> Insert0(header,
                          <<mesh_base, mask_base, download_base,
                            average_template_base, ara_nissl_base>>
                          \o Values(mesh_data_sources)
                          \o Flatten(Values(label_data_sources))
                          \o Values(structures)
                          \o average_templates
                          \o ara_nissl)]

(***************************************************************************)
(* add_members_to_group.  list(v) and list(s_type) yield a set's elements  *)
(* in an order the code does not control, so the operator gives the set of *)
(* nodes the call can return.                                              *)
(***************************************************************************)
WithMembers(node, m) ==
    IF "members" \in DOMAIN node
    THEN {[members |-> p] @@ node : p \in Perms(Range(node.members) \cup {m.id})}
    ELSE {[members |-> <<m.id>>] @@ node}

(* Faulty variant: 'Group' is appended without looking for it first. *)
WithGroupTypeAlways(node) ==
    IF "type" \notin DOMAIN node THEN {[type |-> TStr("Group")] @@ node}
    ELSE IF node.type.kind = "str"
         THEN {[type |-> TList(<<node.type.tags[1], "Group">>)] @@ node}
    ELSE {[type |-> TList(Append(node.type.tags, "Group"))] @@ node}

WithGroupType(node) ==
    IF "type" \notin DOMAIN node THEN {[type |-> TStr("Group")] @@ node}
    ELSE IF node.type = TStr("Group") THEN {node}
    ELSE IF node.type.kind = "str"
         THEN {[type |-> TList(<<node.type.tags[1], "Group">>)] @@ node}
    ELSE IF "Group" \in Range(node.type.tags) THEN {node}
    ELSE {[type |-> TList(p)] @@ node :
             p \in Perms(Range(node.type.tags) \cup {"Group"})}

add_members_to_group(node, m) ==
    UNION {WithGroupType(n) : n \in WithMembers(node, m)}

(***************************************************************************)
(* The script: load, link, discover, build, print.  An uncaught KeyError   *)
(* ends the run at the call that raised it.                                *)
(***************************************************************************)
NoNode == [id |-> "#none"]

Idle == /\ s = NoNode
        /\ s_history = <<>>

Init == /\ pc = "start"
        /\ rows \in CsvFiles
        /\ ontology = <<>>
        /\ listing = <<>>
        /\ mesh_ids = <<>>
        /\ result_nodes = <<>>
        /\ printed = <<>>
        /\ rerun_nodes = <<>>
        /\ Idle

LoadOntology ==
    /\ pc = "start"
    /\ get_allen_mouse_ontology(rows).ok
    /\ ontology' = get_allen_mouse_ontology(rows).ontology
    /\ pc' = "loaded"
    /\ UNCHANGED <<rows, listing, mesh_ids, result_nodes, printed, rerun_nodes,
                   s, s_history>>

LoadOntologyFail ==
    /\ pc = "start"
    /\ ~get_allen_mouse_ontology(rows).ok
    /\ pc' = "failed_get_allen_mouse_ontology"
    /\ UNCHANGED <<rows, ontology, listing, mesh_ids, result_nodes, printed,
                   rerun_nodes, s, s_history>>

FindChildren ==
    /\ pc = "loaded"
    /\ find_children(ontology).ok
    /\ ontology' = find_children(ontology).ontology
    /\ pc' = "linked"
    /\ UNCHANGED <<rows, listing, mesh_ids, result_nodes, printed, rerun_nodes,
                   s, s_history>>

FindChildrenFail ==
    /\ pc = "loaded"
    /\ ~find_children(ontology).ok
    /\ ontology' = find_children(ontology).ontology
    /\ pc' = "failed_find_children"
    /\ UNCHANGED <<rows, listing, mesh_ids, result_nodes, printed,
                   rerun_nodes, s, s_history>>

FetchableMeshIds == UNION {get_mesh_ids(l) : l \in Listings}

GetMeshIds ==
    /\ pc = "linked"
    /\ \E r \in FetchableMeshIds :
          /\ mesh_ids' = r.mesh_ids
          /\ pc' = IF r.ok THEN "discovered" ELSE "failed_get_mesh_ids"
    /\ UNCHANGED <<rows, ontology, listing, result_nodes, printed, rerun_nodes,
                   s, s_history>>

BuildAtlas ==
    /\ pc = "discovered"
    /\ build_atlas(ontology, mesh_ids).ok
    /\ result_nodes' = build_atlas(ontology, mesh_ids).nodes
    /\ pc' = "built"
    /\ UNCHANGED <<rows, ontology, listing, mesh_ids, printed, rerun_nodes,
                   s, s_history>>

BuildAtlasFail ==
    /\ pc = "discovered"
    /\ ~build_atlas(ontology, mesh_ids).ok
    /\ pc' = "failed_build_atlas"
    /\ UNCHANGED <<rows, ontology, listing, mesh_ids, result_nodes, printed,
                   rerun_nodes, s, s_history>>

PrintAtlas ==
    /\ pc = "built"
    /\ printed' = result_nodes
    /\ pc' = "done"
    /\ UNCHANGED <<rows, ontology, listing, mesh_ids, result_nodes, rerun_nodes,
                   s, s_history>>

(***************************************************************************)
(* A second run of the script on the same inputs: the same CSV, the same   *)
(* mesh names, listed by list(meshes) in any order.                        *)
(***************************************************************************)
Reorderings(ids) ==
    {[k \in 1..Len(ids) |-> ids[p[k]]] : p \in Perms(1..Len(ids))}

Rerun ==
    /\ pc = "done"
    /\ \E ids \in Reorderings(mesh_ids) :
          rerun_nodes' =
              build_atlas(find_children(get_allen_mouse_ontology(rows).ontology).ontology,
                          ids).nodes
    /\ pc' = "rerun"
    /\ UNCHANGED <<rows, ontology, listing, mesh_ids, result_nodes, printed,
                   s, s_history>>

Next == \/ LoadOntology
        \/ LoadOntologyFail
        \/ FindChildren
        \/ FindChildrenFail
        \/ GetMeshIds
        \/ BuildAtlas
        \/ BuildAtlasFail
        \/ PrintAtlas
        \/ Rerun

Spec == Init /\ [][Next]_vars

(***************************************************************************)
(* Mesh discovery applied to every listing of the bounded set.             *)
(***************************************************************************)
InitMesh == /\ pc = "mesh_start"
            /\ listing \in Listings
            /\ rows = <<>>
            /\ ontology = <<>>
            /\ mesh_ids = <<>>
            /\ result_nodes = <<>>
            /\ printed = <<>>
            /\ rerun_nodes = <<>>
            /\ Idle

DiscoverMeshIds ==
    /\ pc = "mesh_start"
    /\ \E r \in get_mesh_ids(listing) :
          /\ mesh_ids' = r.mesh_ids
          /\ pc' = IF r.ok THEN "mesh_done" ELSE "failed_get_mesh_ids"
    /\ UNCHANGED <<rows, ontology, listing, result_nodes, printed, rerun_nodes,
                   s, s_history>>

NextMesh == DiscoverMeshIds

SpecMesh == InitMesh /\ [][NextMesh]_vars

(***************************************************************************)
(* add_members_to_group applied, up to MaxMerges times in a row, to every  *)
(* node of the bounded set.                                                *)
(***************************************************************************)
Tags == {"Structure", "Group", "DataSource"}

TypeValues == {TStr(x) : x \in Tags} \cup {TList(l) : l \in SeqsUpTo(Tags, MaxTags)}

MemberIds == {"#structure_7", "#structure_8"}

BareNodes == {[id |-> "#structure_997"]}
             \cup {[id |-> "#structure_997", members |-> <<x>>] : x \in MemberIds}

GroupInputs == BareNodes \cup {[type |-> ty] @@ n : ty \in TypeValues, n \in BareNodes}

InitMerge == /\ pc = "merge"
             /\ s \in GroupInputs
             /\ s_history = <<>>
             /\ rows = <<>>
             /\ ontology = <<>>
             /\ listing = <<>>
             /\ mesh_ids = <<>>
             /\ result_nodes = <<>>
             /\ printed = <<>>
             /\ rerun_nodes = <<>>

AddMembersToGroup ==
    /\ pc = "merge"
    /\ Len(s_history) < MaxMerges
    /\ \E x \in MemberIds : s' \in add_members_to_group(s, [id |-> x])
    /\ s_history' = Append(s_history, s)
    /\ UNCHANGED <<pc, rows, ontology, listing, mesh_ids, result_nodes, printed,
                   rerun_nodes>>

NextMerge == AddMembersToGroup

SpecMerge == InitMerge /\ [][NextMerge]_vars

(***************************************************************************)
(* Properties.                                                             *)
(***************************************************************************)
Linked == pc \in {"linked", "discovered", "built", "done", "rerun",
                 "failed_get_mesh_ids", "failed_build_atlas"}

Built == pc \in {"built", "done", "rerun"}

Occurrences(q, x) == Cardinality({k \in 1..Len(q) : q[k] = x})

Positions(nodes, id_) == {k \in 1..Len(nodes) : nodes[k].id = id_}

NodeOf(nodes, id_) == nodes[CHOOSE k \in 1..Len(nodes) : nodes[k].id = id_]

TagsOf(n) == Range(n.type.tags)

IdSet(nodes) == {nodes[k].id : k \in 1..Len(nodes)}

(* C1: once find_children has returned, every entry with a non-empty       *)
(* parent_structure_id has its id exactly once in the child_structure_ids  *)
(* of the entry keyed by that parent, and in no other entry's list.        *)
C1_ChildLinkedOnce ==
    Linked =>
      \A j \in 1..Len(ontology) :
        LET entry == ontology[j].value
            parent_id == entry.parent_structure_id
        IN parent_id # EmptyStr =>
             /\ IsKey(ontology, parent_id)
             /\ \A k \in 1..Len(ontology) :
                  Occurrences(ontology[k].value.child_structure_ids, entry.id)
                    = IF ontology[k].key = parent_id.i THEN 1 ELSE 0

C1_Witness ==
    /\ pc = "linked"
    /\ \E k \in 1..Len(ontology) : Len(ontology[k].value.child_structure_ids) >= 2

(* C2: for every mesh id given to build_atlas, also in a list that repeats *)
(* an id, the document has exactly one node '#structure_<id>', typed       *)
(* Structure, and exactly one node '#mesh_ds_<id>', a mesh DataSource.     *)
C2_OneStructureOneMesh ==
    Built =>
      \A k \in 1..Len(mesh_ids) :
        LET sid == "#structure_" \o format(mesh_ids[k])
            did == "#mesh_ds_" \o format(mesh_ids[k])
        IN /\ Cardinality(Positions(result_nodes, sid)) = 1
           /\ NodeOf(result_nodes, sid).type = TStr("Structure")
           /\ Cardinality(Positions(result_nodes, did)) = 1
           /\ {"DataSource", "TriangleMeshDataSource"} \subseteq TagsOf(NodeOf(result_nodes, did))

C2_Witness ==
    /\ pc = "built"
    /\ Len(mesh_ids) > Cardinality(Range(mesh_ids))

(* C3: for every mesh id and every resolution of 10, 25, 50, 100 the       *)
(* document has exactly one node '#mask_ds_<resolution>_<id>', and that    *)
(* @id is in shape.dataSource of the node '#structure_<id>'.               *)
C3_OneMaskPerResolution ==
    Built =>
      \A k \in 1..Len(mesh_ids) : \A r \in {10, 25, 50, 100} :
        LET mid == "#mask_ds_" \o format(r) \o "_" \o format(mesh_ids[k])
            sid == "#structure_" \o format(mesh_ids[k])
        IN /\ Cardinality(Positions(result_nodes, mid)) = 1
           /\ Positions(result_nodes, sid) # {}
           /\ mid \in Range(NodeOf(result_nodes, sid).shape.dataSource)

C3_Witness ==
    /\ pc = "built"
    /\ Cardinality(Range(mesh_ids)) >= 2
    /\ "#mask_ds_100_7" \in IdSet(result_nodes)

(* C4: the first element of the document build_atlas returns is the Header *)
(* node, and its root is ['#structure_997'].                               *)
C4_HeaderFirst ==
    Built =>
      /\ result_nodes[1].type = TStr("Header")
      /\ result_nodes[1].root = <<"#structure_997">>

C4_Witness ==
    /\ pc = "built"
    /\ mesh_ids[1] # RootId
    /\ result_nodes[1].id = "#__header__"

(* C5: no two positions of the returned node list hold the same @id.       *)
C5_UniqueIds ==
    Built =>
      \A j, k \in 1..Len(result_nodes) :
        result_nodes[j].id = result_nodes[k].id => j = k

C5_Witness ==
    /\ pc = "done"
    /\ Len(mesh_ids) = 2
    /\ mesh_ids[1] = mesh_ids[2]
    /\ Len(result_nodes) > 14

(* C7: every DataSource node of the document has a baseURL equal to the    *)
(* @id of a BaseURL node of the same document.                             *)
C7_BaseUrlResolves ==
    Built =>
      \A k \in 1..Len(result_nodes) :
        "DataSource" \in TagsOf(result_nodes[k]) =>
          \E j \in 1..Len(result_nodes) :
            /\ result_nodes[j].type = TStr("BaseURL")
            /\ result_nodes[j].id = result_nodes[k].baseURL

C7_Witness ==
    /\ Built
    /\ \E k \in 1..Len(result_nodes) :
         /\ "VoxelMaskDataSource" \in TagsOf(result_nodes[k])
         /\ result_nodes[k].baseURL = "#mesh_download_url"

(* C8: a second run on the same inputs, with the mesh ids in any order,    *)
(* yields the same set of @id values and, for each @id, the same root,     *)
(* backgroundImage, baseURL and shape.dataSource members.                  *)
References(n) ==
    [root |-> IF "root" \in DOMAIN n THEN n.root ELSE <<>>,
     backgroundImage |-> IF "backgroundImage" \in DOMAIN n
                         THEN Range(n.backgroundImage) ELSE {},
     baseURL |-> IF "baseURL" \in DOMAIN n THEN n.baseURL ELSE "",
     dataSource |-> IF "shape" \in DOMAIN n THEN Range(n.shape.dataSource) ELSE {}]

C8_RerunSameGraph ==
    pc = "rerun" =>
      /\ IdSet(rerun_nodes) = IdSet(result_nodes)
      /\ \A x \in IdSet(result_nodes) :
           References(NodeOf(rerun_nodes, x)) = References(NodeOf(result_nodes, x))

C8_Witness ==
    /\ pc = "rerun"
    /\ Ids(rerun_nodes) # Ids(result_nodes)

(* C9: a parent_structure_id that is not a key stops the run in            *)
(* find_children, a mesh id that is not a key stops it in build_atlas, and *)
(* a stopped run has neither returned nor printed a document.              *)
UnresolvedParent(o) ==
    \E j \in 1..Len(o) :
      /\ o[j].value.parent_structure_id # EmptyStr
      /\ ~IsKey(o, o[j].value.parent_structure_id)

UnknownMesh == \E k \in 1..Len(mesh_ids) : ~HasKey(ontology, mesh_ids[k])

C9_LookupFailureIsFatal ==
    /\ UnresolvedParent(ontology)
         => /\ pc \in {"start", "loaded", "failed_find_children"}
            /\ (pc = "loaded" => ENABLED FindChildrenFail /\ ~ENABLED FindChildren)
    /\ UnknownMesh
         => /\ pc \in {"discovered", "failed_build_atlas"}
            /\ (pc = "discovered" => ENABLED BuildAtlasFail /\ ~ENABLED BuildAtlas)
    /\ pc \in {"failed_get_allen_mouse_ontology", "failed_find_children",
               "failed_get_mesh_ids", "failed_build_atlas"}
         => result_nodes = <<>> /\ printed = <<>>

C9_Witness ==
    /\ pc = "failed_build_atlas"
    /\ UnknownMesh
    /\ mesh_ids[1] = RootId
(* C6: one call of add_members_to_group turns a missing @type into        *)
(* 'Group' and the string 'Structure' into a two-element list of           *)
(* 'Structure' and 'Group'; a list-valued @type gains 'Group' only if it   *)
(* lacks it; no call raises the number of times a tag occurs above one;    *)
(* and a second call leaves @type as the first left it.                    *)
TagCount(n, tag) == IF "type" \in DOMAIN n THEN Occurrences(n.type.tags, tag) ELSE 0

MergedFrom(b, a) ==
    /\ "type" \in DOMAIN a
    /\ "type" \notin DOMAIN b => a.type = TStr("Group")
    /\ "type" \in DOMAIN b =>
         /\ b.type = TStr("Structure") =>
              /\ a.type.kind = "list"
              /\ Len(a.type.tags) = 2
              /\ TagsOf(a) = {"Structure", "Group"}
         /\ b.type.kind = "list" =>
              /\ a.type.kind = "list"
              /\ TagsOf(a) = TagsOf(b) \cup {"Group"}
              /\ "Group" \in TagsOf(b) => a.type = b.type
    /\ \A tag \in Tags : TagCount(a, tag) <= Max({1, TagCount(b, tag)})

C6_GroupTagMerge ==
    /\ Len(s_history) >= 1 => MergedFrom(s_history[Len(s_history)], s)
    /\ Len(s_history) >= 2 => s.type = s_history[Len(s_history)].type

C6_Witness ==
    /\ Len(s_history) = 2
    /\ "type" \in DOMAIN s_history[1]
    /\ s_history[1].type = TStr("Structure")
    /\ s.type = TList(<<"Structure", "Group">>)
    /\ Len(s.members) = 2

(* C10: mesh discovery returns an integer if and only if some line of the  *)
(* listing names its '<digits>.obj' file, and returns it exactly once.     *)
RunStarts(line) ==
    {p \in MatchStarts(line) : p = 1 \/ ~IsDigit(line[p - 1])}

NamedIds(line) ==
    {int(SubSeq(line, p, p + Max(MatchLens(line, p)) - 1)).v : p \in RunStarts(line)}

ListedIds(lines) == UNION {NamedIds(lines[k]) : k \in 1..Len(lines)}

C10_DiscoveryIsExact ==
    pc = "mesh_done" =>
      /\ Range(mesh_ids) = ListedIds(listing)
      /\ \A x \in Range(mesh_ids) : Occurrences(mesh_ids, x) = 1

====
